---- MODULE Spec2Model ----
(***************************************************************************)
(* Provider abstraction and routing layer of the OpenMeet ai-service:      *)
(* ProviderManager (providers/provider_manager.py), the AIProvider base    *)
(* class and its three adapters (OpenAI, Anthropic, Local).                *)
(*                                                                         *)
(* The registry self.providers is a Python dict: it is modelled as the     *)
(* sequence of its values in insertion order, one adapter per key.         *)
(* A capability call is a coroutine; it runs without interruption up to    *)
(* the next adapter call that suspends, and is resumed when that call      *)
(* returns or raises.                                                      *)
(***************************************************************************)
EXTENDS Integers, Sequences, FiniteSets, TLC

\* ------------------------------------------------------------------ bounds
\* adapters constructed by register_provider in a run with a capability call
MaxRegs == 2
\* adapters constructed by register_provider in a run of the registry alone
MaxRegistryRegs == 3

\* ------------------------------------------------------- capability model
ProviderType == {"openai", "anthropic", "local", "google", "azure", "custom"}

ModelCapability ==
    {"text_generation", "chat", "transcription", "vision", "embedding",
     "summarization", "sentiment_analysis"}

ProviderStrategy == {"priority", "cost_optimized", "fastest", "fallback"}

\* provider types drawn as inputs: the three with an adapter and one without
KindInputs == {"openai", "anthropic", "local", "google"}
\* capabilities that have a routed call in the manager
RoutedCapabilities == {"transcription", "chat", "embedding", "vision"}
\* ProviderConfig.priority values drawn as inputs
Priorities == {10, 20, 30}

\* ProviderConfig as far as the routing layer reads it; api_key stands for
\* "config.api_key or the environment variable is set"
ProviderConfig ==
    [enabled : BOOLEAN, priority : Priorities, api_key : BOOLEAN]

\* Python None, where an adapter is expected
NoProvider == [provider_type |-> "None", id |-> 0, enabled |-> FALSE, priority |-> 0]

\* Python None, where an exception is expected
NoError == [etype |-> "None", provider_type |-> "None", id |-> 0]

VARIABLES
    providers,          \* ProviderManager.providers, values in dict order
    strategy,           \* ProviderManager.strategy
    default_providers,  \* ProviderManager.default_providers
    next_id,            \* identity of the next adapter object constructed
    admin_raised,       \* what the last registry call raised ("None": returned)
    pc,                 \* per call: "idle", "awaiting", "returned", "raised"
    capability,         \* per call: the capability of the method called
    explicit,           \* per call: the provider_type argument ("None": absent)
    candidates,         \* per call: the local list `providers`
    idx,                \* per call: position of the for loop in that list
    last_error,         \* per call: the local last_error
    result,             \* per call: the response returned or exception raised
    trace,              \* per call: adapter calls made and how each ended
    calls,              \* adapter calls awaited and not yet resolved
    hc_pc,              \* health_check_all: "idle", "awaiting", "returned", "raised"
    hc_rest,            \* its dict iterator: the keys in the slots still ahead
    hc_used,            \* its dict iterator: the dict's size when it was created
    hc_len,             \* its dict iterator: the items it still expects
    hc_results,         \* the local dict `results`
    hc_probe,           \* the adapter whose health_check is awaited
    hc_error,           \* what health_check_all raised ("None": nothing)
    current_llm_name,   \* LocalProvider.current_llm_name
    loaded_models,      \* HuggingFaceModelManager.loaded_models, its keys
    lc_pc,              \* per local chat request: where its coroutine or job is
    lc_model,           \* per local chat request: the model it asks for
    loads,              \* per model: the loads from_pretrained has completed
    lc_served,          \* per local chat request: the model whose weights generated
    cost,               \* what the last ProviderManager.estimate_cost returned
    file_configs,       \* the configs load_config_from_file returns, in dict order
    current_config,     \* ProviderConfigService.current_config
    svc_raised          \* what the last config service call raised ("None": returned)

vars == <<providers, strategy, default_providers, next_id, admin_raised,
          pc, capability, explicit, candidates, idx, last_error, result,
          trace, calls, hc_pc, hc_rest, hc_used, hc_len, hc_results, hc_probe,
          hc_error, current_llm_name, loaded_models, lc_pc, lc_model, loads,
          lc_served, cost, file_configs, current_config, svc_raised>>

registry_vars == <<providers, strategy, default_providers, next_id, admin_raised>>
call_vars == <<pc, capability, explicit, candidates, idx, last_error, result,
               trace, calls>>
health_vars == <<hc_pc, hc_rest, hc_used, hc_len, hc_results, hc_probe, hc_error>>
local_vars == <<current_llm_name, loaded_models, lc_pc, lc_model, loads,
                lc_served>>
cost_vars == <<cost>>
config_vars == <<file_configs, current_config, svc_raised>>

\* the capability calls of a run; calls share nothing but the registry they read
Requests == {"call"}

\* --------------------------------------------------------------- dict ops
Keys(d) == {d[i].provider_type : i \in 1..Len(d)}

\* dict.get(k): the value stored under k, None when absent
DictGet(d, k) ==
    IF k \in Keys(d)
    THEN d[CHOOSE i \in 1..Len(d) : d[i].provider_type = k]
    ELSE NoProvider

\* mutant: the new value is stored next to the one already held under the key
DictSetShadows(d, k, v) == Append(d, v)

\* d[k] = v: an existing key keeps its position, a new key goes last
DictSet(d, k, v) ==
    IF k \in Keys(d)
    THEN [i \in 1..Len(d) |-> IF d[i].provider_type = k THEN v ELSE d[i]]
    ELSE Append(d, v)

\* mutant: the entry stays in the dict
DictDelKeeps(d, k) == d

\* del d[k]
DictDel(d, k) == SelectSeq(d, LAMBDA p : p.provider_type # k)

\* ------------------------------------------------------------- adapters
\* get_capabilities() of each adapter class
get_capabilities(p) ==
    CASE p.provider_type = "openai" ->
            {"chat", "text_generation", "transcription", "embedding", "vision"}
      [] p.provider_type = "anthropic" ->
            {"chat", "text_generation", "vision"}
      [] p.provider_type = "local" ->
            {"chat", "text_generation", "transcription", "embedding", "vision"}
      [] OTHER -> {}

is_enabled(p) == p.enabled

get_priority(p) == p.priority

supports_capability(p, cap) == cap \in get_capabilities(p)

\* the adapter methods whose body is `raise NotImplementedError`
RaisesNotImplemented(p, cap) ==
    \/ p.provider_type = "anthropic" /\ cap \in {"transcription", "embedding"}
    \/ p.provider_type = "openai" /\ cap = "vision"
    \/ p.provider_type = "local" /\ cap = "vision"

\* how an awaited adapter call can end: a response, or an exception of the
\* backend (transient: network, rate limit, 5xx; invalid: the caller's fault)
Outcomes == {"ok", "TransientError", "InvalidRequest"}

\* the response object an adapter builds: its provider field is the
\* adapter's own literal
Response(p) == [kind |-> "response", provider |-> p.provider_type, id |-> p.id,
                etype |-> "None"]

\* an exception raised by adapter p
AdapterError(p, etype) == [etype |-> etype, provider_type |-> p.provider_type, id |-> p.id]

\* the AttributeError of `provider.provider_type.value` on None
AttributeError == [etype |-> "AttributeError", provider_type |-> "None", id |-> 0]

\* an exception leaving the manager method unchanged (`raise`)
Propagated(e) == [kind |-> "error", provider |-> e.provider_type, id |-> e.id,
                  etype |-> e.etype]

\* RuntimeError("No providers available for <capability>")
NoProvidersAvailable == [kind |-> "NoProvidersAvailable", provider |-> "None", id |-> 0,
                         etype |-> "None"]

\* RuntimeError(f"All providers failed. Last error: {last_error}"): the text
\* of last_error is kept, its exception type is not
AllProvidersFailed(e) == [kind |-> "AllProvidersFailed", provider |-> e.provider_type,
                          id |-> e.id, etype |-> "None"]

Pending == [kind |-> "pending", provider |-> "None", id |-> 0, etype |-> "None"]

\* ------------------------------------------------------------- registry
\* Python's sorted(list, key=get_priority): a stable insertion by key
RECURSIVE InsertByPriority(_, _)
InsertByPriority(s, x) ==
    IF s = <<>> THEN <<x>>
    ELSE IF get_priority(Head(s)) <= get_priority(x)
         THEN <<Head(s)>> \o InsertByPriority(Tail(s), x)
         ELSE <<x>> \o s

RECURSIVE sorted(_)
sorted(s) ==
    IF s = <<>> THEN <<>>
    ELSE InsertByPriority(sorted(SubSeq(s, 1, Len(s) - 1)), s[Len(s)])

\* mutant: the filtered list is returned in dict order, unsorted
get_providers_unsorted(cap) ==
    SelectSeq(providers,
              LAMBDA p : is_enabled(p) /\ supports_capability(p, cap))

\* mutant: the enabled flag is not looked at
get_providers_ignoring_enabled(cap) ==
    sorted(SelectSeq(providers, LAMBDA p : supports_capability(p, cap)))

\* ProviderManager.get_providers_for_capability
get_providers_for_capability(cap) ==
    sorted(SelectSeq(providers,
                     LAMBDA p : is_enabled(p) /\ supports_capability(p, cap)))

\* The registry is administered for as long as a capability call is still to
\* be made or is in flight; a run is explored up to the end of its calls.
Running == \E r \in Requests : pc[r] \in {"idle", "awaiting"}

\* the adapter constructors: the hosted ones need a key, the rest of the
\* enumeration has no adapter class
ConstructorRaises(pt, config) ==
    \/ pt \notin {"openai", "anthropic", "local"}
    \/ pt \in {"openai", "anthropic"} /\ ~config.api_key

\* What a dict iterator that is suspended has ahead of it after d[k] = v: a
\* new key takes a new slot at the end, an existing key keeps its slot.
iter_after_set(k) ==
    IF hc_pc = "awaiting" /\ k \notin Keys(providers)
    THEN Append(hc_rest, k) ELSE hc_rest

\* ... and after del d[k]: the slot of k is empty
iter_after_del(k) ==
    IF hc_pc = "awaiting"
    THEN SelectSeq(hc_rest, LAMBDA x : x # k) ELSE hc_rest

\* the ValueError a failing registration raises
ConstructorError(pt) ==
    CASE pt = "openai" -> "ValueError: OpenAI API key not provided"
      [] pt = "anthropic" -> "ValueError: Anthropic API key not provided"
      [] OTHER -> "ValueError: Unsupported provider type"

\* AIProvider.__init__; id is the identity of the object constructed
NewProvider(pt, config, id) ==
    [provider_type |-> pt, id |-> id, enabled |-> config.enabled,
     priority |-> config.priority]

\* mutant: the adapter held under the kind is unregistered before the new
\* one is constructed
register_unregistering_first(pt, config) ==
    /\ Running
    /\ IF ConstructorRaises(pt, config)
       THEN /\ admin_raised' = ConstructorError(pt)
            /\ providers' = DictDel(providers, pt)
            /\ hc_rest' = iter_after_del(pt)
            /\ UNCHANGED next_id
       ELSE /\ providers' = DictSet(providers, pt, NewProvider(pt, config, next_id))
            /\ hc_rest' = iter_after_set(pt)
            /\ next_id' = next_id + 1
            /\ admin_raised' = "None"
    /\ UNCHANGED <<strategy, default_providers>>
    /\ UNCHANGED call_vars
    /\ UNCHANGED local_vars
    /\ UNCHANGED config_vars
    /\ UNCHANGED cost_vars
    /\ UNCHANGED <<hc_pc, hc_used, hc_len, hc_results, hc_probe, hc_error>>

\* ProviderManager.register_provider
register_provider(pt, config) ==
    /\ Running
    /\ IF ConstructorRaises(pt, config)
       THEN /\ admin_raised' = ConstructorError(pt)
            /\ UNCHANGED <<providers, next_id, hc_rest>>
       ELSE /\ providers' = DictSet(providers, pt, NewProvider(pt, config, next_id))
            /\ hc_rest' = iter_after_set(pt)
            /\ next_id' = next_id + 1
            /\ admin_raised' = "None"
    /\ UNCHANGED <<strategy, default_providers>>
    /\ UNCHANGED call_vars
    /\ UNCHANGED local_vars
    /\ UNCHANGED config_vars
    /\ UNCHANGED cost_vars
    /\ UNCHANGED <<hc_pc, hc_used, hc_len, hc_results, hc_probe, hc_error>>

\* ProviderManager.unregister_provider
unregister_provider(pt) ==
    /\ Running
    /\ providers' = IF pt \in Keys(providers) THEN DictDel(providers, pt)
                    ELSE providers
    /\ hc_rest' = iter_after_del(pt)
    /\ admin_raised' = "None"
    /\ UNCHANGED <<strategy, default_providers, next_id>>
    /\ UNCHANGED call_vars
    /\ UNCHANGED local_vars
    /\ UNCHANGED config_vars
    /\ UNCHANGED cost_vars
    /\ UNCHANGED <<hc_pc, hc_used, hc_len, hc_results, hc_probe, hc_error>>

\* mutant: the override is recorded without looking at the registry
set_default_unchecked(cap, pt) ==
    /\ Running
    /\ default_providers' = [default_providers EXCEPT ![cap] = pt]
    /\ admin_raised' = "None"
    /\ UNCHANGED <<providers, strategy, next_id>>
    /\ UNCHANGED call_vars
    /\ UNCHANGED local_vars
    /\ UNCHANGED config_vars
    /\ UNCHANGED cost_vars
    /\ UNCHANGED health_vars

\* ProviderManager.set_default_provider
set_default_provider(cap, pt) ==
    /\ Running
    /\ IF pt \notin Keys(providers)
       THEN /\ admin_raised' = "ValueError: not registered"
            /\ UNCHANGED default_providers
       ELSE /\ default_providers' = [default_providers EXCEPT ![cap] = pt]
            /\ admin_raised' = "None"
    /\ UNCHANGED <<providers, strategy, next_id>>
    /\ UNCHANGED call_vars
    /\ UNCHANGED local_vars
    /\ UNCHANGED config_vars
    /\ UNCHANGED cost_vars
    /\ UNCHANGED health_vars

\* ProviderManager.set_strategy
set_strategy(s) ==
    /\ Running
    /\ strategy' = s
    /\ admin_raised' = "None"
    /\ UNCHANGED <<providers, default_providers, next_id>>
    /\ UNCHANGED call_vars
    /\ UNCHANGED local_vars
    /\ UNCHANGED config_vars
    /\ UNCHANGED cost_vars
    /\ UNCHANGED health_vars

\* ------------------------------------------------------------- routing
Invoke(p) == [ev |-> "invoke", provider_type |-> p.provider_type, id |-> p.id,
              out |-> "None"]
Resolve(p, out) == [ev |-> "resolve", provider_type |-> p.provider_type, id |-> p.id,
                    out |-> out]

\* mutant: the first error is kept, later ones are dropped
record_first_error(last, e) == IF last = NoError THEN e ELSE last

\* `last_error = e` in the generic except clause
record_error(last, e) == e

\* mutant: only the priority strategy fails fast
reraise_priority_only(s) == s = "priority"

\* `if self.strategy != ProviderStrategy.FALLBACK: raise`
reraise(s) == s # "fallback"

\* mutant: a named adapter that is disabled is passed over for the sorted list
select_providers_enabled_only(cap, pt) ==
    IF pt # "None" /\ is_enabled(DictGet(providers, pt))
    THEN <<DictGet(providers, pt)>>
    ELSE get_providers_for_capability(cap)

\* the candidate list of a capability method
select_providers(cap, pt) ==
    IF pt # "None" THEN <<DictGet(providers, pt)>>
    ELSE get_providers_for_capability(cap)

\* mutant: NotImplementedError is handled by the generic except clause
RECURSIVE walk_recording_unsupported(_, _, _, _, _)
walk_recording_unsupported(cands, cap, i, err, tr) ==
    IF i > Len(cands)
    THEN [pc |-> "raised", idx |-> i, last_error |-> err,
          result |-> AllProvidersFailed(err), trace |-> tr, awaited |-> {}]
    ELSE LET p == cands[i] IN
         IF p = NoProvider
         THEN [pc |-> "raised", idx |-> i,
               last_error |-> record_error(err, AttributeError),
               result |-> Propagated(AttributeError), trace |-> tr,
               awaited |-> {}]
         ELSE IF RaisesNotImplemented(p, cap)
         THEN LET e == record_error(err, AdapterError(p, "NotImplementedError"))
                  t == tr \o <<Invoke(p), Resolve(p, "NotImplementedError")>>
              IN IF reraise(strategy)
                 THEN [pc |-> "raised", idx |-> i, last_error |-> e,
                       result |-> Propagated(e), trace |-> t, awaited |-> {}]
                 ELSE walk_recording_unsupported(cands, cap, i + 1, e, t)
         ELSE [pc |-> "awaiting", idx |-> i, last_error |-> err,
               result |-> Pending, trace |-> Append(tr, Invoke(p)),
               awaited |-> {p}]

\* The for loop of a capability method from position i on, run up to the
\* next adapter call that suspends or to the end of the method.
RECURSIVE walk(_, _, _, _, _)
walk(cands, cap, i, err, tr) ==
    IF i > Len(cands)
    THEN [pc |-> "raised", idx |-> i, last_error |-> err,
          result |-> AllProvidersFailed(err), trace |-> tr, awaited |-> {}]
    ELSE LET p == cands[i] IN
         IF p = NoProvider
         THEN \* provider.provider_type on None raises AttributeError inside
              \* the inner try, and once more in the generic except clause,
              \* whose log line reads it before the strategy is looked at
              [pc |-> "raised", idx |-> i,
               last_error |-> record_error(err, AttributeError),
               result |-> Propagated(AttributeError), trace |-> tr,
               awaited |-> {}]
         ELSE IF RaisesNotImplemented(p, cap)
         THEN walk(cands, cap, i + 1, err,
                   tr \o <<Invoke(p), Resolve(p, "NotImplementedError")>>)
         ELSE [pc |-> "awaiting", idx |-> i, last_error |-> err,
               result |-> Pending, trace |-> Append(tr, Invoke(p)),
               awaited |-> {p}]

\* mutant: a response does not end the loop, the next candidate is called too
on_outcome_no_return(r, p, out) ==
    LET tr == Append(trace[r], Resolve(p, out)) IN
    IF out = "ok"
    THEN LET w == walk(candidates[r], capability[r], idx[r] + 1, last_error[r], tr)
         IN [w EXCEPT !.result = Response(p),
                      !.pc = IF w.awaited = {} THEN "returned" ELSE w.pc]
    ELSE LET e == record_error(last_error[r], AdapterError(p, out)) IN
         IF reraise(strategy)
         THEN [pc |-> "raised", idx |-> idx[r], last_error |-> e,
               result |-> Propagated(AdapterError(p, out)), trace |-> tr,
               awaited |-> {}]
         ELSE walk(candidates[r], capability[r], idx[r] + 1, e, tr)

\* mutant: the loop goes on over the registry as it is now, not over the list
\* the method computed at its entry
on_outcome_live(r, p, out) ==
    LET tr == Append(trace[r], Resolve(p, out)) IN
    IF out = "ok"
    THEN [pc |-> "returned", idx |-> idx[r], last_error |-> last_error[r],
          result |-> Response(p), trace |-> tr, awaited |-> {}]
    ELSE LET e == record_error(last_error[r], AdapterError(p, out)) IN
         IF reraise(strategy)
         THEN [pc |-> "raised", idx |-> idx[r], last_error |-> e,
               result |-> Propagated(AdapterError(p, out)), trace |-> tr,
               awaited |-> {}]
         ELSE walk(select_providers(capability[r], explicit[r]), capability[r],
                   idx[r] + 1, e, tr)

\* what the method does with an awaited adapter call's outcome
on_outcome(r, p, out) ==
    LET tr == Append(trace[r], Resolve(p, out)) IN
    IF out = "ok"
    THEN [pc |-> "returned", idx |-> idx[r], last_error |-> last_error[r],
          result |-> Response(p), trace |-> tr, awaited |-> {}]
    ELSE LET e == record_error(last_error[r], AdapterError(p, out)) IN
         IF reraise(strategy)
         THEN [pc |-> "raised", idx |-> idx[r], last_error |-> e,
               result |-> Propagated(AdapterError(p, out)), trace |-> tr,
               awaited |-> {}]
         ELSE walk(candidates[r], capability[r], idx[r] + 1, e, tr)

\* the state of call r after a run of its coroutine that ended as w
Become(r, w) ==
    /\ pc' = [pc EXCEPT ![r] = w.pc]
    /\ idx' = [idx EXCEPT ![r] = w.idx]
    /\ last_error' = [last_error EXCEPT ![r] = w.last_error]
    /\ result' = [result EXCEPT ![r] = w.result]
    /\ trace' = [trace EXCEPT ![r] = w.trace]
    /\ calls' = {c \in calls : c.req # r}
                  \cup {[req |-> r, provider |-> p] : p \in w.awaited}

\* a capability method from its entry to its first suspension
start(r, cap, pt) ==
    /\ pc[r] = "idle"
    /\ capability' = [capability EXCEPT ![r] = cap]
    /\ explicit' = [explicit EXCEPT ![r] = pt]
    /\ LET cands == select_providers(cap, pt) IN
       /\ candidates' = [candidates EXCEPT ![r] = cands]
       /\ IF cands = <<>>
          THEN Become(r, [pc |-> "raised", idx |-> 0, last_error |-> NoError,
                          result |-> NoProvidersAvailable, trace |-> <<>>,
                          awaited |-> {}])
          ELSE Become(r, walk(cands, cap, 1, NoError, <<>>))
    /\ UNCHANGED registry_vars
    /\ UNCHANGED health_vars
    /\ UNCHANGED local_vars
    /\ UNCHANGED config_vars
    /\ UNCHANGED cost_vars

\* ProviderManager.transcribe
transcribe(r, pt) == start(r, "transcription", pt)

\* ProviderManager.chat_completion
chat_completion(r, pt) == start(r, "chat", pt)

\* ProviderManager.generate_embedding
generate_embedding(r, pt) == start(r, "embedding", pt)

\* ProviderManager.vision_completion
vision_completion(r, pt) == start(r, "vision", pt)

\* the AttributeError of looking up a method that ProviderManager does not
\* define
NoSuchMethod == [etype |-> "AttributeError", provider_type |-> "None", id |-> 0]

\* A streaming chat call made of the manager. ProviderManager defines
\* transcribe, chat_completion, generate_embedding and vision_completion and
\* no chat_completion_stream: the call raises at the attribute lookup, no
\* candidate list is computed and no adapter is invoked.
chat_completion_stream(r, pt) ==
    /\ pc[r] = "idle"
    /\ Become(r, [pc |-> "raised", idx |-> 0, last_error |-> NoError,
                    result |-> Propagated(NoSuchMethod), trace |-> <<>>,
                    awaited |-> {}])
    /\ UNCHANGED <<capability, explicit, candidates>>
    /\ UNCHANGED registry_vars
    /\ UNCHANGED health_vars
    /\ UNCHANGED local_vars
    /\ UNCHANGED config_vars
    /\ UNCHANGED cost_vars

\* an awaited adapter call returns or raises, and the method runs on
adapter_resolves(c, out) ==
    /\ c \in calls
    /\ pc[c.req] = "awaiting"
    /\ Become(c.req, on_outcome(c.req, c.provider, out))
    /\ UNCHANGED <<capability, explicit, candidates>>
    /\ UNCHANGED registry_vars
    /\ UNCHANGED health_vars
    /\ UNCHANGED local_vars
    /\ UNCHANGED config_vars
    /\ UNCHANGED cost_vars

\* mutant: the cancellation is handled like any exception of the adapter
on_cancel_as_failure(r, p) == on_outcome(r, p, "CancelledError")

\* What the method does when its task is cancelled while it awaits adapter
\* p: asyncio raises CancelledError at the await. CancelledError derives from
\* BaseException, so that neither `except NotImplementedError`, nor the
\* loop's `except Exception`, nor the method's outer `except Exception`
\* catches it: last_error is not set, the strategy is not looked at.
on_cancel(r, p) ==
    [pc |-> "raised", idx |-> idx[r], last_error |-> last_error[r],
     result |-> Propagated(AdapterError(p, "CancelledError")),
     trace |-> Append(trace[r], Resolve(p, "CancelledError")), awaited |-> {}]

\* the caller cancels the task of call r at its suspension point
cancel(r) ==
    /\ pc[r] = "awaiting"
    /\ \E c \in calls :
          /\ c.req = r
          /\ Become(r, on_cancel(r, c.provider))
    /\ UNCHANGED <<capability, explicit, candidates>>
    /\ UNCHANGED registry_vars
    /\ UNCHANGED health_vars
    /\ UNCHANGED local_vars
    /\ UNCHANGED config_vars
    /\ UNCHANGED cost_vars

\* ---------------------------------------------------------- health checks
\* results[k] = v
ResultSet(f, k, v) == [x \in DOMAIN f \cup {k} |-> IF x = k THEN v ELSE f[x]]

\* The adapters' health_check: the hosted ones await a request to their API
\* and return False on any exception; the local one awaits nothing.
health_check_suspends(p) == p.provider_type \in {"openai", "anthropic"}

\* A dict iterator that finds an item when it expects none more: interpreters
\* that keep count raise "dictionary keys changed during iteration", the
\* others hand the item out.
DictIterBuilds == {"counting", "not counting"}

\* The for loop of health_check_all from the iterator's next step on, run up
\* to the next health_check that suspends or to the end of the method.
RECURSIVE health_loop(_, _, _, _, _)
health_loop(rest, used, len, results, build) ==
    IF Len(providers) # used
    THEN [pc |-> "raised", rest |-> <<>>, len |-> len, results |-> results,
          probe |-> NoProvider,
          error |-> "RuntimeError: dictionary changed size during iteration"]
    ELSE IF rest = <<>>
    THEN [pc |-> "returned", rest |-> <<>>, len |-> len, results |-> results,
          probe |-> NoProvider, error |-> "None"]
    ELSE IF len = 0 /\ build = "counting"
    THEN [pc |-> "raised", rest |-> <<>>, len |-> len, results |-> results,
          probe |-> NoProvider,
          error |-> "RuntimeError: dictionary keys changed during iteration"]
    ELSE LET p == DictGet(providers, Head(rest))
             n == IF len > 0 THEN len - 1 ELSE 0
         IN IF health_check_suspends(p)
            THEN [pc |-> "awaiting", rest |-> Tail(rest), len |-> n,
                  results |-> results, probe |-> p, error |-> "None"]
            ELSE health_loop(Tail(rest), used, n,
                             ResultSet(results, p.provider_type, TRUE), build)

\* the state of health_check_all after a run of its coroutine that ended as w
HealthBecome(w) ==
    /\ hc_pc' = w.pc
    /\ hc_rest' = w.rest
    /\ hc_len' = w.len
    /\ hc_results' = w.results
    /\ hc_probe' = w.probe
    /\ hc_error' = w.error

\* ProviderManager.health_check_all from its entry to its first suspension
health_check_all(build) ==
    /\ hc_pc = "idle"
    /\ hc_used' = Len(providers)
    /\ HealthBecome(health_loop([i \in 1..Len(providers) |-> providers[i].provider_type],
                                Len(providers), Len(providers),
                                [x \in {} |-> TRUE], build))
    /\ UNCHANGED registry_vars
    /\ UNCHANGED call_vars
    /\ UNCHANGED local_vars
    /\ UNCHANGED config_vars
    /\ UNCHANGED cost_vars

\* the awaited health_check returns, and health_check_all runs on
probe_resolves(healthy, build) ==
    /\ hc_pc = "awaiting"
    /\ HealthBecome(health_loop(hc_rest, hc_used, hc_len,
                                ResultSet(hc_results, hc_probe.provider_type, healthy),
                                build))
    /\ UNCHANGED hc_used
    /\ UNCHANGED registry_vars
    /\ UNCHANGED call_vars
    /\ UNCHANGED local_vars
    /\ UNCHANGED config_vars
    /\ UNCHANGED cost_vars

\* ------------------------------------------------- local adapter, models
\* the chat requests made of the Local adapter
LocalRequests == {"r1", "r2"}

\* LLM entries of LocalProvider.models
LocalModels == {"llama-3.1-8b", "qwen2.5-7b"}

\* request.model values drawn as inputs
ModelInputs == LocalModels \cup {"no-such-model"}

\* LocalProvider.chat_completion up to its first suspension: in
\* _ensure_llm_loaded on run_in_executor(load_llm), or on the executor that
\* generates the text when the model is the current one
local_chat_completion(t, m) ==
    /\ lc_pc[t] = "idle"
    /\ lc_model' = [lc_model EXCEPT ![t] = m]
    /\ lc_pc' = [lc_pc EXCEPT ![t] =
                    IF current_llm_name = m THEN "generating"
                    ELSE IF m \notin LocalModels THEN "raised"
                    ELSE "submitted"]
    /\ UNCHANGED <<current_llm_name, loaded_models, loads, lc_served>>
    /\ UNCHANGED <<registry_vars, call_vars, health_vars, cost_vars, config_vars>>

\* HuggingFaceModelManager.load_llm on an executor thread, its cache test
load_llm_begins(t) ==
    /\ lc_pc[t] = "submitted"
    /\ lc_pc' = [lc_pc EXCEPT ![t] =
                    IF lc_model[t] \in loaded_models THEN "resuming" ELSE "loading"]
    /\ UNCHANGED <<current_llm_name, loaded_models, lc_model, loads, lc_served>>
    /\ UNCHANGED <<registry_vars, call_vars, health_vars, cost_vars, config_vars>>

\* ... from_pretrained ends: the model is cached, or the exception is raised
load_llm_ends(t, ok) ==
    /\ lc_pc[t] = "loading"
    /\ IF ok
       THEN /\ loaded_models' = loaded_models \cup {lc_model[t]}
            /\ loads' = [loads EXCEPT ![lc_model[t]] = @ + 1]
            /\ lc_pc' = [lc_pc EXCEPT ![t] = "resuming"]
       ELSE /\ lc_pc' = [lc_pc EXCEPT ![t] = "raised"]
            /\ UNCHANGED <<loaded_models, loads>>
    /\ UNCHANGED <<current_llm_name, lc_model, lc_served>>
    /\ UNCHANGED <<registry_vars, call_vars, health_vars, cost_vars, config_vars>>

\* _ensure_llm_loaded after its await, then chat_completion up to the
\* executor that generates the text
ensure_llm_resumes(t) ==
    /\ lc_pc[t] = "resuming"
    /\ current_llm_name' = lc_model[t]
    /\ lc_pc' = [lc_pc EXCEPT ![t] = "generating"]
    /\ UNCHANGED <<loaded_models, lc_model, loads, lc_served>>
    /\ UNCHANGED <<registry_vars, call_vars, health_vars, cost_vars, config_vars>>

\* _generate_text runs on an executor thread and chat_completion returns.
\* The job takes the weights from self.current_llm when it runs, not when it
\* was submitted: the adapter's current model is whatever the coroutines that
\* resumed from their loads meanwhile have made it.
generate_text_ends(t) ==
    /\ lc_pc[t] = "generating"
    /\ lc_pc' = [lc_pc EXCEPT ![t] = "returned"]
    /\ lc_served' = [lc_served EXCEPT ![t] = current_llm_name]
    /\ UNCHANGED <<current_llm_name, loaded_models, lc_model, loads>>
    /\ UNCHANGED <<registry_vars, call_vars, health_vars, cost_vars, config_vars>>

\* ------------------------------------------------------- cost estimates
\* Amounts are in millionths of a dollar: the adapters round to six decimals.

\* before any estimate_cost has returned
NoCost == [kind |-> "none", input_cost |-> 0, output_cost |-> 0, total_cost |-> 0,
           note |-> FALSE]

\* {"error": "Provider not registered"}
NotRegisteredCost == [kind |-> "error", input_cost |-> 0, output_cost |-> 0,
                      total_cost |-> 0, note |-> FALSE]

\* os.path.getsize of a path that does not exist raises, and the exception
\* leaves estimate_cost
RaisedCost == [kind |-> "raised", input_cost |-> 0, output_cost |-> 0,
               total_cost |-> 0, note |-> FALSE]

Cost(i, o, t, n) == [kind |-> "cost", input_cost |-> i, output_cost |-> o,
                     total_cost |-> t, note |-> n]

\* the priced chat entries of OpenAIProvider.models by key, cost per 1000
\* tokens
OpenAIModels ==
    [m \in {"gpt-4-turbo", "gpt-4"} |->
        IF m = "gpt-4-turbo"
        THEN [cost_per_1k_input |-> 10000, cost_per_1k_output |-> 30000]
        ELSE [cost_per_1k_input |-> 30000, cost_per_1k_output |-> 60000]]

\* an entry of AnthropicProvider.models
AnthropicModels ==
    [m \in {"claude-3-5-sonnet"} |->
        [cost_per_1k_input |-> 3000, cost_per_1k_output |-> 15000]]

\* the model argument of estimate_cost and request.model ("None": absent)
CostModelInputs == {"None", "gpt-4", "claude-3-5-sonnet", "llama-3.1-8b"}

\* requests drawn as inputs of estimate_cost: chat requests by the characters
\* of their messages and max_tokens (0: None), transcription requests by the
\* size of the audio file in MB (-1: no such file)
CostRequests ==
    [type : {"chat"}, chars : {0, 4000}, max_tokens : {0, 2000},
     model : {"None", "gpt-4"}, audio : {0}]
    \cup [type : {"transcription"}, chars : {0}, max_tokens : {0},
          model : {"None"}, audio : {-1, 0, 3}]

\* the chat branch of the hosted adapters' estimate_cost
HostedChatCost(models, default_model, default_output, req, model) ==
    LET model_id == IF model # "None" THEN model
                    ELSE IF req.model # "None" THEN req.model
                    ELSE default_model
    IN IF model_id \notin DOMAIN models
       THEN Cost(0, 0, 0, FALSE)
       ELSE LET input_tokens == req.chars \div 4
                output_tokens == IF req.max_tokens # 0 THEN req.max_tokens
                                 ELSE default_output
                input_cost == (input_tokens * models[model_id].cost_per_1k_input) \div 1000
                output_cost == (output_tokens * models[model_id].cost_per_1k_output) \div 1000
            IN Cost(input_cost, output_cost, input_cost + output_cost, FALSE)

\* OpenAIProvider.estimate_cost
openai_estimate_cost(req, model) ==
    IF req.type = "chat"
    THEN HostedChatCost(OpenAIModels, "gpt-4-turbo-preview", 500, req, model)
    ELSE IF req.audio = -1 THEN RaisedCost
    ELSE LET estimated_minutes == IF req.audio < 1 THEN 1 ELSE req.audio
         IN Cost(estimated_minutes * 6000, 0, estimated_minutes * 6000, FALSE)

\* AnthropicProvider.estimate_cost
anthropic_estimate_cost(req, model) ==
    IF req.type = "chat"
    THEN HostedChatCost(AnthropicModels, "claude-3-5-sonnet-20241022", 1000, req, model)
    ELSE Cost(0, 0, 0, FALSE)

\* mutant: the local adapter prices its output like a hosted one
local_estimate_cost_metered(req, model) ==
    Cost(0, req.max_tokens, req.max_tokens, TRUE)

\* LocalProvider.estimate_cost
local_estimate_cost(req, model) == Cost(0, 0, 0, TRUE)

\* provider.estimate_cost(request, model) on the adapter's class
provider_estimate_cost(p, req, model) ==
    CASE p.provider_type = "openai" -> openai_estimate_cost(req, model)
      [] p.provider_type = "anthropic" -> anthropic_estimate_cost(req, model)
      [] OTHER -> local_estimate_cost(req, model)

\* ProviderManager.estimate_cost; no adapter's estimate_cost suspends
estimate_cost(req, pt, model) ==
    /\ cost' = IF pt \notin Keys(providers) THEN NotRegisteredCost
               ELSE provider_estimate_cost(DictGet(providers, pt), req, model)
    /\ UNCHANGED registry_vars
    /\ UNCHANGED call_vars
    /\ UNCHANGED health_vars
    /\ UNCHANGED local_vars
    /\ UNCHANGED config_vars

\* ------------------------------------------------- configuration service
\* ProviderConfigService drives the manager from a JSON file of configs. The
\* file is a dict of kind -> config: the sequence of its values in order, each
\* with its kind. save_config_to_file writes enabled, priority and api_key as
\* they are and load_config_from_file reads them back as written. The process
\* environment sets no provider variable: the configs are those of the file,
\* and an adapter's key is its config's api_key.

\* the kinds the service is asked about
ServiceKinds == {"openai", "anthropic", "local"}

\* ProviderConfig(provider_type=pt)
ConfigFor(pt) == [provider_type |-> pt, enabled |-> TRUE, priority |-> 100,
                  api_key |-> FALSE]

\* the updates argument of update_provider_config, one key at a time
ConfigUpdates == [key : {"enabled", "api_key"}, value : BOOLEAN]

\* setattr(config, key, value)
SetAttr(config, u) ==
    IF u.key = "enabled" THEN [config EXCEPT !.enabled = u.value]
    ELSE [config EXCEPT !.api_key = u.value]

\* the manager as a config service call finds it
Manager == [providers |-> providers, next_id |-> next_id,
            default_providers |-> default_providers, strategy |-> strategy,
            hc_rest |-> hc_rest, raised |-> "None"]

\* ProviderManager.unregister_provider within a service call
Unregistered(m, pt) ==
    [m EXCEPT !.providers = DictDel(@, pt),
              !.hc_rest = IF hc_pc = "awaiting"
                          THEN SelectSeq(@, LAMBDA x : x # pt) ELSE @]

\* ProviderManager.register_provider within a service call
Registering(m, pt, config) ==
    IF ConstructorRaises(pt, config)
    THEN [m EXCEPT !.raised = ConstructorError(pt)]
    ELSE [m EXCEPT !.providers = DictSet(@, pt, NewProvider(pt, config, m.next_id)),
                   !.next_id = @ + 1,
                   !.hc_rest = IF hc_pc = "awaiting" /\ pt \notin Keys(m.providers)
                               THEN Append(@, pt) ELSE @]

\* ProviderManager.set_default_provider within a service call; a call made
\* after an exception was raised is not made
SettingDefault(m, cap, pt) ==
    IF m.raised # "None" THEN m
    ELSE IF pt \notin Keys(m.providers)
    THEN [m EXCEPT !.raised = "ValueError: not registered"]
    ELSE [m EXCEPT !.default_providers[cap] = pt]

\* whether configs holds an enabled config for kind pt
EnabledIn(configs, pt) == pt \in Keys(configs) /\ DictGet(configs, pt).enabled

\* the hot reload of one kind: unregister_provider, then register_provider
Reloaded(m, pt, config) == Registering(Unregistered(m, pt), pt, config)

\* the registration loop of initialize_providers from position i on: an
\* exception of register_provider is logged and the loop goes on
RECURSIVE RegisterAll(_, _, _, _)
RegisterAll(m, configs, i, reload) ==
    IF i > Len(configs) THEN m
    ELSE LET c == configs[i]
             r == IF reload THEN Reloaded(m, c.provider_type, c)
                  ELSE Registering(m, c.provider_type, c)
         IN RegisterAll(IF c.enabled THEN [r EXCEPT !.raised = "None"] ELSE m,
                        configs, i + 1, reload)

\* ProviderConfigService._set_default_providers: the calls it makes, in order
DefaultsFor(configs) ==
    (IF EnabledIn(configs, "openai")
     THEN <<[cap |-> "chat", pt |-> "openai"], [cap |-> "embedding", pt |-> "openai"]>>
     ELSE IF EnabledIn(configs, "local")
     THEN <<[cap |-> "chat", pt |-> "local"], [cap |-> "embedding", pt |-> "local"]>>
     ELSE <<>>)
    \o (IF EnabledIn(configs, "anthropic")
        THEN <<[cap |-> "vision", pt |-> "anthropic"]>>
        ELSE IF EnabledIn(configs, "openai")
        THEN <<[cap |-> "vision", pt |-> "openai"]>>
        ELSE <<>>)
    \o (IF EnabledIn(configs, "local")
        THEN <<[cap |-> "transcription", pt |-> "local"]>>
        ELSE IF EnabledIn(configs, "openai")
        THEN <<[cap |-> "transcription", pt |-> "openai"]>>
        ELSE <<>>)

RECURSIVE SetDefaults(_, _)
SetDefaults(m, ds) ==
    IF ds = <<>> THEN m
    ELSE SetDefaults(SettingDefault(m, Head(ds).cap, Head(ds).pt), Tail(ds))

\* the state a config service call leaves: the manager, the file, the
\* service's current_config and the exception raised
Installed(m, file, current) ==
    /\ providers' = m.providers
    /\ next_id' = m.next_id
    /\ default_providers' = m.default_providers
    /\ strategy' = m.strategy
    /\ hc_rest' = m.hc_rest
    /\ svc_raised' = m.raised
    /\ file_configs' = file
    /\ current_config' = current
    /\ UNCHANGED admin_raised
    /\ UNCHANGED <<hc_pc, hc_used, hc_len, hc_results, hc_probe, hc_error>>
    /\ UNCHANGED call_vars
    /\ UNCHANGED local_vars
    /\ UNCHANGED cost_vars

\* ProviderConfigService.initialize_providers; strategy_name is the value of
\* PROVIDER_STRATEGY
initialize_providers(reload, strategy_name) ==
    LET configs == file_configs IN
    IF configs = <<>>
    THEN Installed(Manager, file_configs, current_config)
    ELSE LET m == SetDefaults(RegisterAll(Manager, configs, 1, reload),
                              DefaultsFor(configs))
         IN IF m.raised # "None"
            THEN Installed(m, file_configs, current_config)
            ELSE Installed([m EXCEPT !.strategy = strategy_name], file_configs, configs)

\* the configs update_provider_config saves
UpdatedConfigs(pt, u) ==
    LET configs == IF pt \in Keys(file_configs) THEN file_configs
                   ELSE Append(file_configs, ConfigFor(pt))
    IN DictSet(configs, pt, SetAttr(DictGet(configs, pt), u))

\* ProviderConfigService.update_provider_config as far as the manager and the
\* file go; disk_ok is whether save_config_to_file succeeds
Updating(pt, u, hot_reload, disk_ok) ==
    LET configs == UpdatedConfigs(pt, u)
        config == DictGet(configs, pt)
    IN IF ~disk_ok
       THEN [m |-> [Manager EXCEPT !.raised = "OSError"], file |-> file_configs,
             current |-> current_config]
       ELSE IF hot_reload /\ config.enabled
       THEN LET m == Reloaded(Manager, pt, config)
            IN [m |-> m, file |-> configs,
                current |-> IF m.raised # "None" THEN current_config ELSE configs]
       ELSE [m |-> Manager, file |-> configs, current |-> configs]

\* ProviderConfigService.update_provider_config
update_provider_config(pt, u, hot_reload, disk_ok) ==
    LET w == Updating(pt, u, hot_reload, disk_ok)
    IN Installed(w.m, w.file, w.current)

\* ProviderConfigService.disable_provider
disable_provider(pt, disk_ok) ==
    LET w == Updating(pt, [key |-> "enabled", value |-> FALSE], FALSE, disk_ok)
    IN IF w.m.raised # "None"
       THEN Installed(w.m, w.file, w.current)
       ELSE Installed(Unregistered(w.m, pt), w.file, w.current)

\* ------------------------------------------------------------ behaviours
ExplicitInputs == {"None", "openai", "anthropic", "local"}

\* ProviderManager.__init__
Init ==
    /\ providers = <<>>
    /\ strategy = "fallback"
    /\ default_providers = [c \in ModelCapability |-> "None"]
    /\ next_id = 1
    /\ admin_raised = "None"
    /\ pc = [r \in Requests |-> "idle"]
    /\ capability = [r \in Requests |-> "None"]
    /\ explicit = [r \in Requests |-> "None"]
    /\ candidates = [r \in Requests |-> <<>>]
    /\ idx = [r \in Requests |-> 0]
    /\ last_error = [r \in Requests |-> NoError]
    /\ result = [r \in Requests |-> Pending]
    /\ trace = [r \in Requests |-> <<>>]
    /\ calls = {}
    /\ hc_pc = "idle"
    /\ hc_rest = <<>>
    /\ hc_used = 0
    /\ hc_len = 0
    /\ hc_results = [x \in {} |-> TRUE]
    /\ hc_probe = NoProvider
    /\ hc_error = "None"
    /\ current_llm_name = "None"
    /\ loaded_models = {}
    /\ lc_pc = [t \in LocalRequests |-> "idle"]
    /\ lc_model = [t \in LocalRequests |-> "None"]
    /\ loads = [m \in LocalModels |-> 0]
    /\ lc_served = [t \in LocalRequests |-> "None"]
    /\ cost = NoCost
    /\ file_configs = <<>>
    /\ current_config = <<>>
    /\ svc_raised = "None"

\* capabilities drawn as inputs of set_default_provider
DefaultInputs == {"chat", "transcription"}

Register ==
    /\ next_id <= MaxRegs
    /\ \E pt \in KindInputs, config \in ProviderConfig : register_provider(pt, config)
RegisterAlone ==
    /\ next_id <= MaxRegistryRegs
    /\ \E pt \in KindInputs, config \in ProviderConfig : register_provider(pt, config)
Unregister == \E pt \in KindInputs : unregister_provider(pt)
SetDefault == \E cap \in DefaultInputs, pt \in KindInputs : set_default_provider(cap, pt)
SetStrategy == \E s \in ProviderStrategy : set_strategy(s)
Transcribe == \E r \in Requests, pt \in ExplicitInputs : transcribe(r, pt)
ChatCompletion == \E r \in Requests, pt \in ExplicitInputs : chat_completion(r, pt)
GenerateEmbedding == \E r \in Requests, pt \in ExplicitInputs : generate_embedding(r, pt)
VisionCompletion == \E r \in Requests, pt \in ExplicitInputs : vision_completion(r, pt)
AdapterResolves == \E c \in calls, out \in Outcomes : adapter_resolves(c, out)
HealthCheckAll == \E build \in DictIterBuilds : health_check_all(build)
ProbeResolves ==
    \E healthy \in BOOLEAN, build \in DictIterBuilds : probe_resolves(healthy, build)

\* Routing: registration, strategy and capability calls. The default table is
\* written by set_default_provider alone and read by no capability method.
Next ==
    \/ Register
    \/ Unregister
    \/ SetStrategy
    \/ Transcribe
    \/ ChatCompletion
    \/ GenerateEmbedding
    \/ VisionCompletion
    \/ AdapterResolves

Spec == Init /\ [][Next]_vars

\* The default table: registration, set_default_provider and capability calls
\* under the strategy the manager is constructed with.
NextDefaults ==
    \/ Register
    \/ SetDefault
    \/ Transcribe
    \/ ChatCompletion
    \/ GenerateEmbedding
    \/ VisionCompletion
    \/ AdapterResolves

SpecDefaults == Init /\ [][NextDefaults]_vars

\* The registry alone: the states register_provider and unregister_provider
\* reach, no capability call being made.
NextRegistry ==
    \/ RegisterAlone
    \/ Unregister

SpecRegistry == Init /\ [][NextRegistry]_vars

\* The administration of the manager: registry, default table and strategy,
\* no capability call being made.
NextAdmin ==
    \/ Register
    \/ Unregister
    \/ SetDefault
    \/ SetStrategy

SpecAdmin == Init /\ [][NextAdmin]_vars

\* Health checks: health_check_all while the registry is administered.
NextHealth ==
    \/ Register
    \/ Unregister
    \/ HealthCheckAll
    \/ ProbeResolves

SpecHealth == Init /\ [][NextHealth]_vars

\* values of PROVIDER_STRATEGY drawn as inputs
StrategyInputs == {"fallback", "priority"}

InitializeProviders ==
    /\ next_id <= MaxRegs
    /\ \E reload \in BOOLEAN, s \in StrategyInputs : initialize_providers(reload, s)
UpdateProviderConfig ==
    /\ next_id <= MaxRegs
    /\ \E pt \in ServiceKinds, u \in ConfigUpdates, hot_reload, disk_ok \in BOOLEAN :
          update_provider_config(pt, u, hot_reload, disk_ok)
DisableProvider ==
    \E pt \in ServiceKinds, disk_ok \in BOOLEAN : disable_provider(pt, disk_ok)

\* The configuration service: the calls that write the file and drive the
\* manager from it.
NextConfig ==
    \/ InitializeProviders
    \/ UpdateProviderConfig
    \/ DisableProvider

SpecConfig == Init /\ [][NextConfig]_vars

Cancel == \E r \in Requests : cancel(r)

\* Cancellation: capability calls whose task the caller may cancel while it
\* is suspended.
NextCancel ==
    \/ Register
    \/ SetStrategy
    \/ Transcribe
    \/ ChatCompletion
    \/ AdapterResolves
    \/ Cancel

SpecCancel == Init /\ [][NextCancel]_vars

ChatCompletionStream ==
    \E r \in Requests, pt \in ExplicitInputs : chat_completion_stream(r, pt)

\* Streaming: the registry and a streaming chat call made of the manager.
NextStream ==
    \/ Register
    \/ Unregister
    \/ ChatCompletionStream

SpecStream == Init /\ [][NextStream]_vars

EstimateCost ==
    \E req \in CostRequests, pt \in KindInputs, model \in CostModelInputs :
        estimate_cost(req, pt, model)

\* ProviderConfig() with the dataclass's defaults for enabled and priority
DefaultProviderConfig(key) == [enabled |-> TRUE, priority |-> 100, api_key |-> key]

RegisterWithDefaults ==
    /\ next_id <= MaxRegs
    /\ \E pt \in KindInputs, key \in BOOLEAN :
          register_provider(pt, DefaultProviderConfig(key))

\* Cost estimates: the registry and ProviderManager.estimate_cost.
NextCost ==
    \/ RegisterWithDefaults
    \/ Unregister
    \/ EstimateCost

SpecCost == Init /\ [][NextCost]_vars

LocalChatCompletion ==
    \E t \in LocalRequests, m \in ModelInputs : local_chat_completion(t, m)
LoadLlmBegins == \E t \in LocalRequests : load_llm_begins(t)
LoadLlmEnds == \E t \in LocalRequests, ok \in BOOLEAN : load_llm_ends(t, ok)
EnsureLlmResumes == \E t \in LocalRequests : ensure_llm_resumes(t)
GenerateTextEnds == \E t \in LocalRequests : generate_text_ends(t)

\* The Local adapter: chat requests made of it concurrently, their load jobs
\* on the threads of the loop's default executor.
NextLocal ==
    \/ LocalChatCompletion
    \/ LoadLlmBegins
    \/ LoadLlmEnds
    \/ EnsureLlmResumes
    \/ GenerateTextEnds

SpecLocal == Init /\ [][NextLocal]_vars

\* ------------------------------------------------------------- claims
\* the adapter calls of call r, in the order they were made
RECURSIVE InvokedIn(_)
InvokedIn(tr) ==
    IF tr = <<>> THEN <<>>
    ELSE IF Head(tr).ev = "invoke"
         THEN <<[provider_type |-> Head(tr).provider_type, id |-> Head(tr).id]>>
                  \o InvokedIn(Tail(tr))
         ELSE InvokedIn(Tail(tr))

Ident(p) == [provider_type |-> p.provider_type, id |-> p.id]

Failures == {"TransientError", "InvalidRequest", "NotImplementedError"}

\* the event a step appends first to the trace of call r
Appended(r) == trace'[r][Len(trace[r]) + 1]
Grows(r) == Len(trace'[r]) > Len(trace[r])

\* C1: a call without an explicit kind that returns a response returns the
\* response of the first candidate, in ascending order of priority, whose
\* adapter call succeeded: every earlier candidate was invoked, in order, and
\* failed, and the response's provider field is the serving candidate's kind.
\* Under the fallback strategy a failing candidate never ends the call while
\* a later candidate has not been invoked.
C1_ServedByFirstSuccess ==
    \A r \in Requests :
        (pc[r] = "returned" /\ explicit[r] = "None") =>
            LET c == candidates[r]
                n == idx[r]
                t == trace[r]
            IN /\ n \in 1..Len(c)
               /\ \A i, j \in 1..Len(c) : i < j => c[i].priority <= c[j].priority
               /\ Len(t) = 2 * n
               /\ \A i \in 1..n :
                    /\ t[2 * i - 1].ev = "invoke"
                    /\ Ident(t[2 * i - 1]) = Ident(c[i])
                    /\ t[2 * i].ev = "resolve"
                    /\ Ident(t[2 * i]) = Ident(c[i])
                    /\ (i < n) => t[2 * i].out \in Failures
                    /\ (i = n) => t[2 * i].out = "ok"
               /\ result[r].kind = "response"
               /\ result[r].provider = c[n].provider_type
               /\ result[r].id = c[n].id

C1_FallbackWalksOn ==
    \A r \in Requests :
        (/\ pc[r] = "awaiting"
         /\ explicit[r] = "None"
         /\ strategy = "fallback"
         /\ pc'[r] = "raised")
        => /\ Len(trace'[r]) = 2 * Len(candidates[r])
           /\ result'[r].kind = "AllProvidersFailed"

C1_FallbackFirstSuccess ==
    [](C1_ServedByFirstSuccess) /\ [][C1_FallbackWalksOn]_vars

\* the priority-10 candidate, registered last, raised a transient error and
\* the priority-30 candidate served the call
C1_Witness ==
    \E r \in Requests :
        /\ pc[r] = "returned"
        /\ explicit[r] = "None"
        /\ strategy = "fallback"
        /\ idx[r] = 2
        /\ trace[r][2].out = "TransientError"
        /\ candidates[r][1].priority = 10
        /\ candidates[r][2].priority = 30
        /\ candidates[r][1].id > candidates[r][2].id
        /\ result[r].provider = candidates[r][2].provider_type

\* C2: under a strategy other than fallback, a candidate's error that is not
\* NotImplementedError ends the call at once with that error: no further
\* candidate is invoked and no adapter call of the request stays outstanding.
C2_FailFastStep ==
    \A r \in Requests :
        (/\ pc[r] = "awaiting"
         /\ strategy # "fallback"
         /\ Grows(r)
         /\ Appended(r).ev = "resolve"
         /\ Appended(r).out \in {"TransientError", "InvalidRequest"})
        => /\ pc'[r] = "raised"
           /\ result'[r].kind = "error"
           /\ result'[r].etype = Appended(r).out
           /\ result'[r].provider = candidates[r][idx[r]].provider_type
           /\ result'[r].id = candidates[r][idx[r]].id
           /\ Len(trace'[r]) = Len(trace[r]) + 1
           /\ ~ \E c \in calls' : c.req = r

C2_NonFallbackFailsFast == [][C2_FailFastStep]_vars

\* the first of several candidates failed under a fail-fast strategy and the
\* others were never invoked
C2_Witness ==
    \E r \in Requests :
        /\ pc[r] = "raised"
        /\ explicit[r] = "None"
        /\ strategy \in {"priority", "cost_optimized", "fastest"}
        /\ Len(candidates[r]) >= 2
        /\ result[r].kind = "error"
        /\ result[r].etype = "TransientError"
        /\ Len(InvokedIn(trace[r])) = 1

\* the registered adapters that are enabled and declare capability cap
Eligible(cap) ==
    {providers[i] : i \in {k \in 1..Len(providers) :
                              /\ providers[k].enabled
                              /\ cap \in get_capabilities(providers[k])}}

Elements(s) == {s[i] : i \in 1..Len(s)}

\* C3: for every capability, the candidate list computed without an explicit
\* kind holds exactly the registered adapters that are enabled and declare the
\* capability, in ascending order of priority, adapters of equal priority in
\* the order they were registered.
C3_CandidatesFilteredSortedStable ==
    \A cap \in ModelCapability :
        LET c == get_providers_for_capability(cap) IN
        /\ Elements(c) = Eligible(cap)
        /\ Len(c) = Cardinality(Eligible(cap))
        /\ \A i, j \in 1..Len(c) :
              i < j => \/ c[i].priority < c[j].priority
                       \/ c[i].priority = c[j].priority /\ c[i].id < c[j].id

\* C4: a call that names a registered kind whose adapter raises
\* NotImplementedError for the capability fails with that error, and no other
\* backend is invoked.
C4_ExplicitUnsupportedSurfaces ==
    \A r \in Requests :
        (/\ pc[r] = "raised"
         /\ explicit[r] # "None"
         /\ Len(candidates[r]) = 1
         /\ candidates[r][1] # NoProvider
         /\ RaisesNotImplemented(candidates[r][1], capability[r]))
        => /\ result[r].etype = "NotImplementedError"
           /\ InvokedIn(trace[r]) = <<Ident(candidates[r][1])>>

\* C5: within one call the adapters are invoked one at a time: every adapter
\* call is resolved before the next one is made, the next one is made only
\* after a failure (an error or NotImplementedError), at most one adapter call
\* of the call is outstanding, and nothing is invoked after a success.
C5_OneCandidateAtATime ==
    \A r \in Requests :
        LET t == trace[r]
            out == {c \in calls : c.req = r}
        IN /\ Cardinality(out) <= 1
           /\ \A k \in 1..Len(t) :
                /\ (k % 2 = 1) => t[k].ev = "invoke"
                /\ (k % 2 = 0) => /\ t[k].ev = "resolve"
                                  /\ Ident(t[k]) = Ident(t[k - 1])
                /\ (t[k].ev = "invoke" /\ k > 1) => t[k - 1].out \in Failures
                /\ (t[k].out = "ok") => k = Len(t)
           /\ Cardinality({k \in 1..Len(t) : t[k].out = "ok"}) <= 1
           /\ (out # {}) <=> (Len(t) % 2 = 1)
           /\ \A c \in out : Ident(c.provider) = Ident(t[Len(t)])
           /\ (pc[r] = "awaiting") <=> (out # {})

\* the second candidate served the call after the first one had failed
C5_Witness ==
    \E r \in Requests :
        /\ pc[r] = "returned"
        /\ Len(trace[r]) = 4
        /\ trace[r][2].out = "TransientError"
        /\ trace[r][4].out = "ok"
        /\ Len(candidates[r]) = 2
        /\ calls = {}

\* whether adapter object p is the one the registry holds for its kind
Registered(p) == DictGet(providers, p.provider_type) = p

\* C6: a call walks the candidate list it computed at its entry, whatever
\* happens to the registry meanwhile: the adapters it invokes are the head of
\* that list, in order, the adapter it awaits is the one at its position in
\* that list, registered or not, and a step that changes the registry changes
\* nothing of a call.
C6_WalksItsSnapshot ==
    \A r \in Requests :
        (pc[r] # "idle" /\ explicit[r] = "None") =>
            LET inv == InvokedIn(trace[r]) IN
            /\ Len(inv) <= Len(candidates[r])
            /\ \A k \in 1..Len(inv) : inv[k] = Ident(candidates[r][k])
            /\ (pc[r] = "awaiting") =>
                  /\ Len(inv) = idx[r]
                  /\ calls = {[req |-> r, provider |-> candidates[r][idx[r]]]}
            /\ (pc[r] = "returned") => result[r].id = candidates[r][idx[r]].id

C6_RegistryStepLeavesCalls ==
    (providers' # providers) => UNCHANGED call_vars

C6_SnapshotSurvivesUnregister ==
    [](C6_WalksItsSnapshot) /\ [][C6_RegistryStepLeavesCalls]_vars

\* the call was served by its second candidate, an adapter that had been
\* unregistered meanwhile and not registered again (the first candidate still
\* is registered)
C6_Witness ==
    \E r \in Requests :
        /\ pc[r] = "returned"
        /\ explicit[r] = "None"
        /\ idx[r] = 2
        /\ Registered(candidates[r][1])
        /\ candidates[r][2].provider_type \notin Keys(providers)
        /\ result[r].id = candidates[r][2].id
        /\ next_id = 3

\* C7: unregister_provider(kind) leaves no adapter of that kind in the
\* registry; a kind enters the registry only by a registration; and a call
\* that starts, whatever its capability, has only adapters in its candidate
\* list that the registry holds at that moment.
C7_UnregisterStep ==
    \A pt \in KindInputs :
        unregister_provider(pt) => pt \notin Keys(providers')

C7_OnlyRegisterAdds ==
    \A pt \in ProviderType :
        (pt \notin Keys(providers) /\ pt \in Keys(providers')) =>
            /\ next_id' = next_id + 1
            /\ DictGet(providers', pt).id = next_id

C7_StartStep ==
    \A r \in Requests :
        (pc[r] = "idle" /\ pc'[r] # "idle") =>
            \A p \in Elements(candidates'[r]) : p # NoProvider => Registered(p)

C7_UnregisteredNeverCandidate ==
    [][C7_UnregisterStep /\ C7_OnlyRegisterAdds /\ C7_StartStep]_vars

\* a call started after an enabled adapter of its capability had been
\* registered and unregistered again: it found no candidate
C7_Witness ==
    \E r \in Requests :
        /\ pc[r] = "raised"
        /\ explicit[r] = "None"
        /\ capability[r] = "chat"
        /\ candidates[r] = <<>>
        /\ providers = <<>>
        /\ next_id = 2

\* C8: when the default table names, for the capability of a call, a
\* registered adapter that is enabled and declares the capability, a call
\* without an explicit kind has that adapter first in its candidate list.
C8_DefaultFirstStep ==
    \A r \in Requests :
        (/\ pc[r] = "idle"
         /\ pc'[r] # "idle"
         /\ explicit'[r] = "None"
         /\ default_providers[capability'[r]] # "None"
         /\ DictGet(providers, default_providers[capability'[r]])
                \in Eligible(capability'[r]))
        => /\ candidates'[r] # <<>>
           /\ candidates'[r][1].provider_type = default_providers[capability'[r]]

C8_DefaultTriedFirst == [][C8_DefaultFirstStep]_vars

\* C9: a call without an explicit kind, made when no registered adapter is
\* enabled and declares the capability, fails with "No providers available"
\* and invokes no adapter.
C9_NoCandidateStep ==
    \A r \in Requests :
        (/\ pc[r] = "idle"
         /\ pc'[r] # "idle"
         /\ explicit'[r] = "None"
         /\ Eligible(capability'[r]) = {})
        => /\ pc'[r] = "raised"
           /\ result'[r].kind = "NoProvidersAvailable"
           /\ trace'[r] = <<>>
           /\ calls' = calls

C9_NoProviderAvailable == [][C9_NoCandidateStep]_vars

\* a call failed so while adapters were registered, none of them enabled
C9_Witness ==
    \E r \in Requests :
        /\ pc[r] = "raised"
        /\ explicit[r] = "None"
        /\ result[r].kind = "NoProvidersAvailable"
        /\ trace[r] = <<>>
        /\ providers # <<>>
        /\ \A i \in 1..Len(providers) : ~providers[i].enabled

\* the positions of trace t at which an adapter call ended in a backend error
ErrorsIn(t) ==
    {k \in 1..Len(t) : t[k].out \in {"TransientError", "InvalidRequest"}}

Max(S) == CHOOSE x \in S : \A y \in S : y <= x

\* C10: a call without an explicit kind that fails with "All providers
\* failed" has invoked every candidate, none of them succeeded, and the
\* failure carries the error of the last candidate that raised one other than
\* NotImplementedError (None when there was no such candidate).
C10_AllFailedCarriesLastError ==
    \A r \in Requests :
        (/\ pc[r] = "raised"
         /\ explicit[r] = "None"
         /\ result[r].kind = "AllProvidersFailed")
        => LET t == trace[r]
               e == ErrorsIn(t)
           IN /\ Len(InvokedIn(t)) = Len(candidates[r])
              /\ \A k \in 1..Len(t) : t[k].out # "ok"
              /\ (e = {}) => result[r].provider = "None" /\ result[r].id = 0
              /\ (e # {}) => /\ result[r].provider = t[Max(e)].provider_type
                             /\ result[r].id = t[Max(e)].id

\* under the fallback strategy a call whose candidates have all been tried
\* without success ends with "All providers failed"
C10_ExhaustedStep ==
    \A r \in Requests :
        (/\ pc[r] = "awaiting"
         /\ explicit[r] = "None"
         /\ strategy = "fallback"
         /\ Grows(r)
         /\ Appended(r).out \in {"TransientError", "InvalidRequest"}
         /\ \A k \in (idx[r] + 1)..Len(candidates[r]) :
               RaisesNotImplemented(candidates[r][k], capability[r]))
        => /\ pc'[r] = "raised"
           /\ result'[r].kind = "AllProvidersFailed"
           /\ result'[r].provider = candidates[r][idx[r]].provider_type
           /\ result'[r].id = candidates[r][idx[r]].id

C10_AllProvidersFailed ==
    [](C10_AllFailedCarriesLastError) /\ [][C10_ExhaustedStep]_vars

\* two candidates failed one after the other, with different errors, and the
\* failure names the second
C10_Witness ==
    \E r \in Requests :
        /\ pc[r] = "raised"
        /\ explicit[r] = "None"
        /\ strategy = "fallback"
        /\ result[r].kind = "AllProvidersFailed"
        /\ Len(candidates[r]) = 2
        /\ trace[r][2].out = "InvalidRequest"
        /\ trace[r][4].out = "TransientError"
        /\ result[r].id = candidates[r][2].id
        /\ result[r].id # candidates[r][1].id

\* C11: under every strategy a candidate whose adapter raises
\* NotImplementedError is skipped: when a further candidate remains it is the
\* next one invoked, and last_error stays what the last backend error made it
\* (None when no candidate raised one).
C11_UnsupportedIsSkipped ==
    \A r \in Requests :
        (pc[r] # "idle" /\ explicit[r] = "None") =>
            LET t == trace[r]
                c == candidates[r]
                e == ErrorsIn(t)
            IN /\ \A k \in 1..Len(t) :
                    (t[k].out = "NotImplementedError" /\ k \div 2 < Len(c)) =>
                        /\ Len(t) > k
                        /\ t[k + 1].ev = "invoke"
                        /\ Ident(t[k + 1]) = Ident(c[k \div 2 + 1])
               /\ \A k \in 1..Len(t) :
                    (t[k].out = "NotImplementedError" /\ k \div 2 = Len(c)) =>
                        /\ pc[r] = "raised"
                        /\ result[r].kind = "AllProvidersFailed"
               /\ last_error[r] =
                     IF e = {} THEN NoError
                     ELSE [etype |-> t[Max(e)].out,
                           provider_type |-> t[Max(e)].provider_type,
                           id |-> t[Max(e)].id]

\* under a fail-fast strategy the first candidate raised NotImplementedError
\* and the second one was invoked and served the call
C11_Witness ==
    \E r \in Requests :
        /\ pc[r] = "returned"
        /\ explicit[r] = "None"
        /\ strategy = "priority"
        /\ trace[r][2].out = "NotImplementedError"
        /\ idx[r] = 2
        /\ last_error[r] = NoError
        /\ result[r].id = candidates[r][2].id

\* C12: a candidate's InvalidRequest error ends the call with that error,
\* under every strategy: it is the last event of the call's trace, no later
\* candidate is invoked and the caller receives it.
C12_InvalidRequestNotRetried ==
    \A r \in Requests :
        LET t == trace[r] IN
        \A k \in 1..Len(t) :
            t[k].out = "InvalidRequest" =>
                /\ k = Len(t)
                /\ pc[r] = "raised"
                /\ result[r].kind = "error"
                /\ result[r].etype = "InvalidRequest"
                /\ result[r].id = t[k].id

\* the failures the routing layer is specified to end a call with
TaxonomyErrors == {"NotImplementedError", "InvalidRequest", "TransientError"}

\* C13: a call that has ended either returned the response of the one backend
\* whose adapter call succeeded, or failed with "No providers available",
\* "All providers failed" or a backend's own error of the taxonomy; a call
\* naming a kind that is not registered fails with "No providers available".
C13_OutcomeInTaxonomy ==
    \A r \in Requests :
        /\ pc[r] = "returned" =>
              /\ result[r].kind = "response"
              /\ {k \in 1..Len(trace[r]) : trace[r][k].out = "ok"} = {Len(trace[r])}
              /\ result[r].provider = trace[r][Len(trace[r])].provider_type
        /\ pc[r] = "raised" =>
              \/ result[r].kind \in {"NoProvidersAvailable", "AllProvidersFailed"}
              \/ result[r].kind = "error" /\ result[r].etype \in TaxonomyErrors
        /\ (pc[r] = "raised" /\ candidates[r] = <<NoProvider>>) =>
              result[r].kind = "NoProvidersAvailable"

\* C14: a call naming a registered kind has exactly that kind's adapter as
\* its candidate list, whatever the adapter's enabled flag and priority and
\* whatever the strategy; that adapter is the only one the call invokes, it is
\* invoked once, and its failure ends the call.
C14_ListIsNamedAdapter ==
    \A r \in Requests :
        (/\ pc[r] = "idle"
         /\ pc'[r] # "idle"
         /\ explicit'[r] \in Keys(providers))
        => candidates'[r] = <<DictGet(providers, explicit'[r])>>

C14_OnlyNamedAdapterInvoked ==
    \A r \in Requests :
        (/\ pc[r] # "idle"
         /\ explicit[r] # "None"
         /\ candidates[r] # <<NoProvider>>)
        => /\ Len(candidates[r]) = 1
           /\ candidates[r][1].provider_type = explicit[r]
           /\ InvokedIn(trace[r]) = <<Ident(candidates[r][1])>>
           /\ (Len(trace[r]) = 2 /\ trace[r][2].out # "ok") => pc[r] = "raised"

C14_ExplicitKindAlone ==
    [](C14_OnlyNamedAdapterInvoked) /\ [][C14_ListIsNamedAdapter]_vars

\* under fallback a named adapter that is disabled was invoked and failed, and
\* the call ended there although an enabled adapter of the capability and of
\* lower priority value was registered
C14_Witness ==
    \E r \in Requests :
        /\ pc[r] = "raised"
        /\ explicit[r] # "None"
        /\ strategy = "fallback"
        /\ Len(candidates[r]) = 1
        /\ ~candidates[r][1].enabled
        /\ Len(trace[r]) = 2
        /\ trace[r][2].out = "TransientError"
        /\ \E p \in Eligible(capability[r]) : p.priority < candidates[r][1].priority

\* C15: the registry never holds two adapters of one kind; a successful
\* register_provider on a kind already registered leaves the registry with
\* the adapter built from the new config under that kind, the old instance
\* gone and the other adapters as they were; and a candidate list holds only
\* instances that the registry holds when the list is computed.
C15_OnePerKind ==
    \A i, j \in 1..Len(providers) :
        providers[i].provider_type = providers[j].provider_type => i = j

C15_CandidatesAreRegistered ==
    \A cap \in ModelCapability, pt \in ExplicitInputs :
        Elements(select_providers(cap, pt)) \subseteq Elements(providers) \cup {NoProvider}

C15_RegisterReplaces ==
    \A pt \in KindInputs, config \in ProviderConfig :
        (/\ register_provider(pt, config)
         /\ ~ConstructorRaises(pt, config)
         /\ pt \in Keys(providers))
        => /\ DictGet(providers', pt) = NewProvider(pt, config, next_id)
           /\ DictGet(providers, pt) \notin Elements(providers')
           /\ Len(providers') = Len(providers)
           /\ \A k \in Keys(providers) \ {pt} :
                 DictGet(providers', k) = DictGet(providers, k)

C15_OneLiveAdapterPerKind ==
    /\ [](C15_OnePerKind /\ C15_CandidatesAreRegistered)
    /\ [][C15_RegisterReplaces]_vars

\* two kinds are registered and the first in the dict is the newer instance:
\* its kind was registered again after the other kind, with another config,
\* and it alone is the candidate list for chat
C15_Witness ==
    /\ Len(providers) = 2
    /\ providers[1].id = 3
    /\ providers[2].id = 2
    /\ providers[1].enabled
    /\ ~providers[2].enabled
    /\ get_providers_for_capability("chat") = <<providers[1]>>

\* C16: set_default_provider(capability, kind) raises when the kind is not
\* registered and then leaves the default table, the registry and the
\* strategy as they were; when the kind is registered it sets the entry of
\* that capability to the kind and changes nothing else.
C16_SetDefaultStep ==
    \A cap \in DefaultInputs, pt \in KindInputs :
        set_default_provider(cap, pt) =>
            /\ UNCHANGED <<providers, strategy, next_id>>
            /\ UNCHANGED call_vars
            /\ pt \notin Keys(providers) =>
                  /\ admin_raised' = "ValueError: not registered"
                  /\ default_providers' = default_providers
            /\ pt \in Keys(providers) =>
                  /\ admin_raised' = "None"
                  /\ default_providers'[cap] = pt
                  /\ \A c \in ModelCapability \ {cap} :
                        default_providers'[c] = default_providers[c]

C16_SetDefaultChecksRegistry == [][C16_SetDefaultStep]_vars

\* the override for chat was recorded, and a later set_default_provider with
\* a kind that is not registered raised and left the table with that one entry
C16_Witness ==
    /\ admin_raised = "ValueError: not registered"
    /\ default_providers["chat"] \in Keys(providers)
    /\ \A c \in ModelCapability \ {"chat"} : default_providers[c] = "None"

\* the kinds that have an adapter class
AdapterKinds == {"openai", "anthropic", "local"}

\* C17: a register_provider that fails (a kind without an adapter class, a
\* hosted kind without a key) raises and leaves the registry as it was, an
\* adapter registered earlier under the kind included; the registry and the
\* candidate lists only ever hold adapters of kinds that have a class.
C17_FailedRegisterStep ==
    \A pt \in KindInputs, config \in ProviderConfig :
        (register_provider(pt, config) /\ ConstructorRaises(pt, config)) =>
            /\ admin_raised' = ConstructorError(pt)
            /\ providers' = providers
            /\ next_id' = next_id
            /\ UNCHANGED <<strategy, default_providers>>
            /\ UNCHANGED call_vars

C17_OnlyConstructedAdapters ==
    /\ Keys(providers) \subseteq AdapterKinds
    /\ \A i \in 1..Len(providers) : providers[i].id \in 1..(next_id - 1)
    /\ \A cap \in ModelCapability :
          \A p \in Elements(get_providers_for_capability(cap)) :
              p.provider_type \in AdapterKinds

C17_FailedRegisterLeavesRegistry ==
    [](C17_OnlyConstructedAdapters) /\ [][C17_FailedRegisterStep]_vars

\* a registration of OpenAI without a key has just failed, and the OpenAI
\* adapter registered before is still the candidate for chat
C17_Witness ==
    /\ admin_raised = "ValueError: OpenAI API key not provided"
    /\ "openai" \in Keys(providers)
    /\ DictGet(providers, "openai") \in Elements(get_providers_for_capability("chat"))

\* C18: health_check_all probes the registered adapters concurrently: when it
\* first suspends, every registered adapter has its result or has its probe
\* outstanding, so that a probe that hangs keeps back no other adapter's
\* result.
C18_FanOutStep ==
    (hc_pc = "idle" /\ hc_pc' = "awaiting") =>
        /\ Keys(providers) \subseteq DOMAIN hc_results' \cup {hc_probe'.provider_type}
        /\ hc_rest' = <<>>

C18_ProbesConcurrently == [][C18_FanOutStep]_vars

\* the keys of dict f
Probed == DOMAIN hc_results

\* C19: health_check_all never raises, and the map it returns has one boolean
\* entry for each registered adapter and no other entry; a probe that fails
\* gives False for its adapter and leaves the other entries and the registry
\* as they were.
C19_NeverRaises == hc_pc # "raised"

C19_ReturnStep ==
    (hc_pc # "returned" /\ hc_pc' = "returned") =>
        /\ DOMAIN hc_results' = Keys(providers)
        /\ \A k \in DOMAIN hc_results' : hc_results'[k] \in BOOLEAN

C19_ProbeStep ==
    \A healthy \in BOOLEAN, build \in DictIterBuilds :
        probe_resolves(healthy, build) =>
            /\ hc_results'[hc_probe.provider_type] = healthy
            /\ \A k \in Probed \ {hc_probe.provider_type} :
                  hc_results'[k] = hc_results[k]
            /\ providers' = providers

C19_HealthNeverThrows ==
    [](C19_NeverRaises) /\ [][C19_ReturnStep /\ C19_ProbeStep]_vars

\* the requests whose load job is inside from_pretrained for model m
Loading(m) == {t \in LocalRequests : lc_pc[t] = "loading" /\ lc_model[t] = m}

\* C20: first uses of one model are serialized: no two loads of a model are
\* in progress together, a model is loaded at most once, and no load starts
\* for a model that is loaded.
C20_LoadStep ==
    \A t \in LocalRequests :
        (lc_pc[t] # "loading" /\ lc_pc'[t] = "loading") =>
            lc_model[t] \notin loaded_models

C20_Serialized ==
    \A m \in LocalModels :
        /\ Cardinality(Loading(m)) <= 1
        /\ loads[m] <= 1

C20_ModelLoadedOnce == [](C20_Serialized) /\ [][C20_LoadStep]_vars

\* C21: every registered adapter answers the capabilities it declares: for no
\* capability in its get_capabilities() does its method raise
\* NotImplementedError, and no candidate list computed for a capability holds
\* an adapter whose method for that capability raises it.
C21_DeclaredIsAnswered ==
    /\ \A p \in Elements(providers), cap \in RoutedCapabilities :
          supports_capability(p, cap) => ~RaisesNotImplemented(p, cap)
    /\ \A cap \in RoutedCapabilities :
          \A p \in Elements(get_providers_for_capability(cap)) :
              ~RaisesNotImplemented(p, cap)

\* C22: a streaming chat call walks the candidate list chat_completion would
\* walk: when that list has a first candidate, the call invokes it and awaits
\* its stream.
C22_StreamStep ==
    \A r \in Requests, pt \in ExplicitInputs :
        chat_completion_stream(r, pt) =>
            LET c == select_providers("chat", pt) IN
            (c # <<>> /\ c[1] # NoProvider) =>
                /\ pc'[r] = "awaiting"
                /\ calls' = {[req |-> r, provider |-> c[1]]}
                /\ trace'[r] = <<Invoke(c[1])>>

C22_StreamFollowsCandidates == [][C22_StreamStep]_vars

\* C23: estimate_cost of the manager for a registered Local adapter returns
\* what LocalProvider.estimate_cost returns, and that is an input cost, an
\* output cost and a total cost of 0, whatever the request and the model
\* argument.
C23_LocalCostStep ==
    "local" \in Keys(providers) =>
        \A req \in CostRequests, model \in CostModelInputs :
            estimate_cost(req, "local", model) =>
                /\ cost' = local_estimate_cost(req, model)
                /\ cost'.kind = "cost"
                /\ cost'.input_cost = 0
                /\ cost'.output_cost = 0
                /\ cost'.total_cost = 0

C23_LocalCostIsZero == [][C23_LocalCostStep]_vars

\* the Local adapter's estimate (it alone carries the note) was returned while
\* a hosted adapter was registered before it
C23_Witness ==
    /\ cost.kind = "cost"
    /\ cost.note
    /\ cost.total_cost = 0
    /\ Len(providers) = 2
    /\ providers[1].provider_type = "openai"
    /\ providers[2].provider_type = "local"

\* C24: a call cancelled while it awaits a candidate ends there, under every
\* strategy: the caller receives the cancellation, the cancelled adapter call
\* is the last the call made, it is not recorded as the last error of a
\* fallback, and no adapter call of the request stays outstanding.
C24_CancellationPropagates ==
    \A r \in Requests :
        LET t == trace[r] IN
        \A k \in 1..Len(t) :
            t[k].out = "CancelledError" =>
                /\ k = Len(t)
                /\ pc[r] = "raised"
                /\ result[r].kind = "error"
                /\ result[r].etype = "CancelledError"
                /\ last_error[r].etype # "CancelledError"
                /\ Ident(t[k]) = Ident(candidates[r][idx[r]])
                /\ ~ \E c \in calls : c.req = r

\* under fallback a call with two candidates was cancelled while it awaited
\* the first, and the second was never invoked
C24_Witness ==
    \E r \in Requests :
        /\ pc[r] = "raised"
        /\ strategy = "fallback"
        /\ explicit[r] = "None"
        /\ result[r].etype = "CancelledError"
        /\ Len(candidates[r]) = 2
        /\ InvokedIn(trace[r]) = <<Ident(candidates[r][1])>>

\* C25: every entry of the default table names a kind that is registered: no
\* sequence of register_provider, unregister_provider and
\* set_default_provider leaves an entry that names an unregistered kind.
C25_DefaultsNameRegistered ==
    \A cap \in ModelCapability :
        default_providers[cap] # "None" => default_providers[cap] \in Keys(providers)

\* C26: a hot reload keeps the kind registered: after
\* update_provider_config(kind, updates, hot_reload=True) whose updated config
\* is enabled, whether it returned or raised, a kind that was registered
\* before is registered still, with the adapter it had or with the adapter
\* built from the updated config.
C26_HotReloadStep ==
    \A pt \in ServiceKinds, u \in ConfigUpdates, disk_ok \in BOOLEAN :
        (/\ pt \in Keys(providers)
         /\ DictGet(UpdatedConfigs(pt, u), pt).enabled
         /\ update_provider_config(pt, u, TRUE, disk_ok))
        => /\ pt \in Keys(providers')
           /\ \/ DictGet(providers', pt) = DictGet(providers, pt)
              \/ DictGet(providers', pt) =
                    NewProvider(pt, DictGet(UpdatedConfigs(pt, u), pt), next_id)

C26_HotReloadIsAtomic == [][C26_HotReloadStep]_vars

\* whether every enabled config of the file can be constructed
AllConstructible(configs) ==
    \A i \in 1..Len(configs) :
        configs[i].enabled => ~ConstructorRaises(configs[i].provider_type, configs[i])

\* the kinds whose config in the file is enabled
EnabledKinds(configs) == {pt \in Keys(configs) : DictGet(configs, pt).enabled}

\* C27: after initialize_providers(reload=True) over a file all of whose
\* enabled configs can be constructed, the registered kinds are the kinds
\* whose config is enabled, and no candidate list holds another kind.
C27_ReloadStep ==
    \A s \in StrategyInputs :
        (initialize_providers(TRUE, s) /\ AllConstructible(file_configs)) =>
            /\ Keys(providers') = EnabledKinds(file_configs)
            /\ \A cap \in RoutedCapabilities :
                  \A p \in Elements(SelectSeq(providers',
                                LAMBDA q : is_enabled(q) /\ supports_capability(q, cap))) :
                      p.provider_type \in EnabledKinds(file_configs)

C27_ReloadRegistersEnabledOnly == [][C27_ReloadStep]_vars

\* C28: initialize_providers does not raise when one enabled backend cannot
\* be constructed: the enabled backends that can be constructed are
\* registered, every default entry names a registered kind, and the strategy
\* is the configured one.
C28_InitializeStep ==
    \A reload \in BOOLEAN, s \in StrategyInputs :
        (initialize_providers(reload, s) /\ file_configs # <<>>) =>
            /\ svc_raised' = "None"
            /\ \A i \in 1..Len(file_configs) :
                  LET c == file_configs[i] IN
                  (c.enabled /\ ~ConstructorRaises(c.provider_type, c)) =>
                      c.provider_type \in Keys(providers')
            /\ \A cap \in ModelCapability :
                  default_providers'[cap] # default_providers[cap] =>
                      default_providers'[cap] \in Keys(providers')
            /\ strategy' = s

C28_InitializeToleratesFailure == [][C28_InitializeStep]_vars

\* C29: a chat response of the Local adapter names the model that generated
\* it: the model field, which is the model the request asked for, is the
\* model whose weights produced the content.
C29_ResponseNamesItsModel ==
    \A t \in LocalRequests :
        lc_pc[t] = "returned" => lc_served[t] = lc_model[t]

\* C30: what a suspended call does with the outcome of the adapter call it
\* awaits is fixed before set_strategy is called: a set_strategy made while
\* the call is suspended changes neither whether a failure of the awaited
\* candidate ends the call nor which candidate is invoked next.
C30_SetStrategyStep ==
    \A r \in Requests :
        (pc[r] = "awaiting" /\ strategy' # strategy) =>
            \A c \in calls, out \in Outcomes :
                c.req = r =>
                    on_outcome(r, c.provider, out)' = on_outcome(r, c.provider, out)

C30_StrategyFixedAtStart == [][C30_SetStrategyStep]_vars

====
